---- MODULE Spec2Model ----
(***************************************************************************)
(* GitLab pages exporter: the scrape orchestration of exporter/pages.go    *)
(* (latest revision: Run / handleProjectPages / handleCustomDomains /      *)
(* checkProjectForPagesJob over exporterMetrics) and the scheduler of      *)
(* main.go (initial `go exp.Run(next)` plus one goroutine per cron         *)
(* firing).                                                                *)
(*                                                                         *)
(* Goroutines are modelled as processes with a program counter; every      *)
(* access to shared memory that the Go code performs without               *)
(* synchronisation (the `totalProjectPages += 1` of the page workers) is   *)
(* split into its load and its store.                                      *)
(***************************************************************************)
EXTENDS Integers, Sequences, FiniteSets, TLC

\* ------------------------------------------------------------------ bounds
\* Number of Run executions the environment triggers: the start-up run plus
\* MaxCycles - 1 cron firings.
MaxCycles == 2
\* Size of the project inventory in the multi-cycle specification.
NumProjects == 1
\* Size of the project inventory in the single-cycle specifications.
NumProjectsSingle == 3
\* Projects per inventory page (PerPage of ListProjects; 100 in the code).
PerPage == 2
\* Number of custom domains of the domain inventory.
NumDomains == 1
\* Number of custom domains in the single-cycle specifications.
NumDomainsSingle == 2
\* Longest job list a secondary lookup returns (PerPage: 20 in the code).
MaxJobs == 2

\* ------------------------------------------------------------- constants
Failed == "failed"
Succeeded == "succeeded"
PagesJobName == "pages"
\* A gauge series that was never written.
NoValue == -1

Cycles == 1..MaxCycles

\* A project of the remote inventory (ids ascending, unique).  The project
\* at position `at` has a disabled access level: its builds, its pages or both.
ProjectAt(k, at, dis) ==
    [ID |-> k,
     Name |-> "p",
     WebURL |-> "u",
     BuildsAccessLevel |-> IF k = at /\ dis \in {"builds", "both"}
                           THEN "disabled" ELSE "enabled",
     PagesAccessLevel |-> IF k = at /\ dis \in {"pages", "both"}
                          THEN "disabled" ELSE "enabled"]

NoProject ==
    [ID |-> 0, Name |-> "", WebURL |-> "",
     BuildsAccessLevel |-> "", PagesAccessLevel |-> ""]

\* The remote custom-domain inventory: domain j belongs to project j, odd
\* domains are verified.
DomainAt(j) == [ProjectID |-> j, URL |-> "d", Verified |-> (j % 2 = 1)]

\* Sequences over S of length 0..n.
RECURSIVE SeqsUpTo(_, _)
SeqsUpTo(S, n) ==
    IF n = 0 THEN {<<>>}
    ELSE LET shorter == SeqsUpTo(S, n - 1)
         IN shorter \cup {Append(s, x) : s \in {t \in shorter : Len(t) = n - 1}, x \in S}

\* What Jobs.ListProjectJobs can answer: an error, or a list of job names.
JobsResponses ==
    {[err |-> TRUE, jobs |-> <<>>]}
    \cup {[err |-> FALSE, jobs |-> js] : js \in SeqsUpTo({PagesJobName, "build"}, MaxJobs)}

VARIABLES
    now,          \* wall clock, counted in schedule instants already passed
    inventory,    \* remote: the projects, ascending id
    domains,      \* remote: the custom domains
    jobsRequests, \* remote: project ids ListProjectJobs was called for
    jobsAnswers,  \* remote: per inventory position, the answer ListProjectJobs
                  \* is bound to give; <<>> where each call draws its own
    config,       \* environment variables read by main
    mainPc,       \* position of main()
    next,         \* main's captured variable `next`
    exited,       \* "no", or why the process ended ("fatal", "panic")
    setMetricsForProjectsWithoutPages,
    metrics,      \* exporterMetrics
    run,          \* per Run execution: position, argument and locals
    checks,       \* per Run execution and inventory position: page worker
    dom           \* per Run execution: handleCustomDomains and its recorders

vars == <<now, inventory, domains, jobsRequests, jobsAnswers, config, mainPc, next, exited,
          setMetricsForProjectsWithoutPages, metrics, run, checks, dom>>

envVars == <<inventory, domains, jobsAnswers, config, setMetricsForProjectsWithoutPages>>

\* ------------------------------------------------------------ exporterMetrics
\* NewGitlabPagesExporter: empty vectors, no series written yet.
NewMetrics ==
    [projectPages |-> <<>>,
     customDomains |-> <<>>,
     customDomainsTotal |-> NoValue,
     projectPagesTotal |-> NoValue,
     checkState |-> NoValue,
     lastCheckDuration |-> NoValue,
     lastCheckTime |-> NoValue,
     nextCheckTime |-> NoValue,
     numberOfScrapes |-> 0,
     projectsChecked |-> NoValue]

\* vec.WithLabelValues(labels...).Set(value)
WithLabelValuesSet(vec, labels, value) ==
    [l \in DOMAIN vec \cup {labels} |-> IF l = labels THEN value ELSE vec[l]]

\* Variant of clearPagesMetrics: only the domains family is reset.
clearPagesMetricsDomainsOnly(m) ==
    [m EXCEPT !.customDomains = <<>>]

clearPagesMetrics(m) ==
    [m EXCEPT !.customDomains = <<>>, !.projectPages = <<>>]

setCheckStateRunning(m) == [m EXCEPT !.checkState = 1]

setCheckStateFinished(m) == [m EXCEPT !.checkState = 0]

setNextRun(m, n) == [m EXCEPT !.nextCheckTime = n]

setLastCheckMetrics(m, elapsed, t) ==
    [m EXCEPT !.lastCheckDuration = elapsed, !.lastCheckTime = t]

setNumberOfProjects(m, n) == [m EXCEPT !.projectsChecked = n]

\* Variant of setCustomDomainMetrics: the gauge is added to, not set.
setCustomDomainMetricsAdd(m, domain) ==
    LET value == IF ~domain.Verified THEN 0 ELSE 1
        labels == <<ToString(domain.ProjectID), domain.URL>>
    IN [m EXCEPT !.customDomains =
            [l \in DOMAIN @ \cup {labels} |->
                IF l = labels
                THEN (IF labels \in DOMAIN @ THEN @[l] + value ELSE value)
                ELSE @[l]]]

\* Variant of setCustomDomainMetrics: every listed domain counts as verified.
setCustomDomainMetricsVerifiedIgnored(m, domain) ==
    [m EXCEPT !.customDomains =
        WithLabelValuesSet(@, <<ToString(domain.ProjectID), domain.URL>>, 1)]

setCustomDomainMetrics(m, domain) ==
    LET value == IF ~domain.Verified THEN 0 ELSE 1
    IN [m EXCEPT !.customDomains =
            WithLabelValuesSet(@, <<ToString(domain.ProjectID), domain.URL>>, value)]

\* Variant of increaseNumberOfScrapes: the counter is set, not increased.
increaseNumberOfScrapesSet(m) == [m EXCEPT !.numberOfScrapes = 1]

increaseNumberOfScrapes(m) == [m EXCEPT !.numberOfScrapes = @ + 1]

\* Variant of setTotalCustomDomains: the total lands in the projects gauge.
setTotalCustomDomainsWrongGauge(m, total) == [m EXCEPT !.projectPagesTotal = total]

setTotalCustomDomains(m, total) == [m EXCEPT !.customDomainsTotal = total]

setTotalProjectPages(m, total) == [m EXCEPT !.projectPagesTotal = total]

ProjectLabels(project, checkState) ==
    <<ToString(project.ID), project.Name, project.WebURL,
      project.PagesAccessLevel, checkState>>

setProjectPagesMetrics(m, project, hasPages, checkState) ==
    LET value == IF ~hasPages THEN 0 ELSE 1
    IN [m EXCEPT !.projectPages =
            WithLabelValuesSet(@, ProjectLabels(project, checkState), value)]

\* ------------------------------------------------------ checkProjectForPagesJob
\* for _, job := range jobs { if job.Name == PagesJobName { ...; break } }
RECURSIVE ScanJobs(_, _)
ScanJobs(jobs, i) ==
    IF i > Len(jobs) THEN FALSE
    ELSE IF jobs[i] = PagesJobName THEN TRUE
    ELSE ScanJobs(jobs, i + 1)

\* Variant of checkProjectForPagesJob: only the builds access level is tested.
checkProjectForPagesJobBuildsOnly(project, response) ==
    IF project.BuildsAccessLevel # "disabled"
    THEN IF response.err
         THEN [hasPagesJob |-> FALSE, checkState |-> Failed, requested |-> TRUE]
         ELSE [hasPagesJob |-> ScanJobs(response.jobs, 1),
               checkState |-> Succeeded, requested |-> TRUE]
    ELSE [hasPagesJob |-> FALSE, checkState |-> Succeeded, requested |-> FALSE]

\* Variant of checkProjectForPagesJob: a failed lookup leaves checkState alone.
checkProjectForPagesJobErrorIgnored(project, response) ==
    IF project.BuildsAccessLevel # "disabled" /\ project.PagesAccessLevel # "disabled"
    THEN IF response.err
         THEN [hasPagesJob |-> FALSE, checkState |-> Succeeded, requested |-> TRUE]
         ELSE [hasPagesJob |-> ScanJobs(response.jobs, 1),
               checkState |-> Succeeded, requested |-> TRUE]
    ELSE [hasPagesJob |-> FALSE, checkState |-> Succeeded, requested |-> FALSE]

\* Variant of checkProjectForPagesJob: only the first job is compared.
checkProjectForPagesJobFirstJobOnly(project, response) ==
    IF project.BuildsAccessLevel # "disabled" /\ project.PagesAccessLevel # "disabled"
    THEN IF response.err
         THEN [hasPagesJob |-> FALSE, checkState |-> Failed, requested |-> TRUE]
         ELSE [hasPagesJob |-> Len(response.jobs) >= 1 /\ response.jobs[1] = PagesJobName,
               checkState |-> Succeeded, requested |-> TRUE]
    ELSE [hasPagesJob |-> FALSE, checkState |-> Succeeded, requested |-> FALSE]

\* The result of checkProjectForPagesJob when ListProjectJobs would answer
\* `response`; `requested` tells whether the lookup was issued at all.
checkProjectForPagesJob(project, response) ==
    IF project.BuildsAccessLevel # "disabled" /\ project.PagesAccessLevel # "disabled"
    THEN IF response.err
         THEN [hasPagesJob |-> FALSE, checkState |-> Failed, requested |-> TRUE]
         ELSE [hasPagesJob |-> ScanJobs(response.jobs, 1),
               checkState |-> Succeeded, requested |-> TRUE]
    ELSE [hasPagesJob |-> FALSE, checkState |-> Succeeded, requested |-> FALSE]

\* ------------------------------------------------------------- remote API
NilResponse == [isNil |-> TRUE, CurrentPage |-> 0, NextPage |-> 0]

\* Page 0 is not sent (omitempty): the server answers with its first page.
EffectivePage(page) == IF page = 0 THEN 1 ELSE page

FirstOfPage(page) == (EffectivePage(page) - 1) * PerPage + 1

LastOfPage(page, n) ==
    IF EffectivePage(page) * PerPage < n THEN EffectivePage(page) * PerPage ELSE n

\* What Projects.ListProjects(page) can answer.  A successful answer holds the
\* page's projects and the number of the next page (0: none).  A failed
\* request answers no projects, with the error response (an HTTP error
\* status, no pagination headers) or with no response at all (transport).
ListProjectsResponses(page, inv) ==
    {[projects |-> SubSeq(inv, FirstOfPage(page), LastOfPage(page, Len(inv))),
      resp |-> [isNil |-> FALSE, CurrentPage |-> EffectivePage(page),
                NextPage |-> IF EffectivePage(page) * PerPage < Len(inv)
                             THEN EffectivePage(page) + 1 ELSE 0],
      err |-> FALSE],
     [projects |-> <<>>,
      resp |-> [isNil |-> FALSE, CurrentPage |-> 0, NextPage |-> 0],
      err |-> TRUE],
     [projects |-> <<>>, resp |-> NilResponse, err |-> TRUE]}

\* What PagesDomains.ListAllPagesDomains can answer.
ListAllPagesDomainsResponses(ds) ==
    {[customDomains |-> ds, err |-> FALSE], [customDomains |-> <<>>, err |-> TRUE]}

\* ------------------------------------------------------------------- main
DefaultSchedule == "0 0 2 * * *"

\* cron.Parse: the schedules it accepts.
ParseOk(schedule) == schedule \in {DefaultSchedule, "0 0 * * * *"}

\* sched.Next(t): the first schedule instant after t.
SchedNext(t) == t + 1

\* ------------------------------------------------------------------- Init
IdleRun ==
    [pc |-> "idle", next |-> 0, start |-> 0, elapsed |-> 0, Page |-> 0,
     totalProjects |-> 0, totalProjectPages |-> 0,
     projects |-> <<>>, resp |-> NilResponse, err |-> FALSE, wg |-> 0]

IdleWorker ==
    [pc |-> "none", project |-> NoProject, err |-> FALSE, hasPagesJob |-> FALSE,
     checkState |-> Succeeded, tmp |-> 0]

IdleDomains ==
    [pc |-> "none", customDomains |-> <<>>, err |-> FALSE, pending |-> {}]

InitWith(nProjects, nDomains, disabledAt) ==
    /\ now = 0
    /\ \E at \in disabledAt, dis \in {"builds", "pages", "both"} :
          inventory = [k \in 1..nProjects |-> ProjectAt(k, at, dis)]
    /\ domains = [j \in 1..nDomains |-> DomainAt(j)]
    /\ jobsRequests = {}
    /\ jobsAnswers = <<>>
    /\ config = [token |-> "t", apiUrl |-> "u", schedule |-> ""]
    /\ mainPc = "start"
    /\ next = 0
    /\ exited = "no"
    /\ setMetricsForProjectsWithoutPages \in BOOLEAN
    /\ metrics = NewMetrics
    /\ run = [c \in Cycles |-> IdleRun]
    /\ checks = [c \in Cycles |-> [k \in 1..nProjects |-> IdleWorker]]
    /\ dom = [c \in Cycles |-> IdleDomains]

\* Several Run executions: a small inventory without a disabled project.
Init == InitWith(NumProjects, NumDomains, {0})

\* One Run execution: any one project of the inventory, or none, is disabled.
InitSingle == InitWith(NumProjectsSingle, NumDomainsSingle, 0..NumProjectsSingle)

\* ---------------------------------------------------------------- main()
Alive == exited = "no"

\* Variant of MainConfigure: a missing token is not looked at.
MainConfigureTokenOptional ==
    /\ Alive
    /\ mainPc = "start"
    /\ LET schedule == IF config.schedule = "" THEN DefaultSchedule ELSE config.schedule
       IN IF config.apiUrl = "" \/ ~ParseOk(schedule)
          THEN /\ exited' = "fatal"
               /\ UNCHANGED <<mainPc, next>>
          ELSE /\ next' = SchedNext(now)
               /\ mainPc' = "goRun"
               /\ UNCHANGED exited
    /\ UNCHANGED <<now, envVars, jobsRequests, metrics, run, checks, dom>>

\* main.go 16-36: read and validate the settings, parse the schedule,
\* compute the first `next`.  log.Fatal ends the process.
MainConfigure ==
    /\ Alive
    /\ mainPc = "start"
    /\ LET schedule == IF config.schedule = "" THEN DefaultSchedule ELSE config.schedule
       IN IF config.token = "" \/ config.apiUrl = "" \/ ~ParseOk(schedule)
          THEN /\ exited' = "fatal"
               /\ UNCHANGED <<mainPc, next>>
          ELSE /\ next' = SchedNext(now)
               /\ mainPc' = "goRun"
               /\ UNCHANGED exited
    /\ UNCHANGED <<now, envVars, jobsRequests, metrics, run, checks, dom>>

\* A Run execution entered with argument n.
StartedRun(n) == [IdleRun EXCEPT !.pc = "setNextRun", !.next = n]

\* Variant of MainGoRun: main goes on without starting a Run.
MainGoRunLeftToCron ==
    /\ Alive
    /\ mainPc = "goRun"
    /\ mainPc' = "startCron"
    /\ UNCHANGED <<now, envVars, jobsRequests, next, exited, metrics, run, checks, dom>>

\* main.go 38-40: go exp.Run(next)
MainGoRun ==
    /\ Alive
    /\ mainPc = "goRun"
    /\ run' = [run EXCEPT ![1] = StartedRun(next)]
    /\ mainPc' = "startCron"
    /\ UNCHANGED <<now, envVars, jobsRequests, next, exited, metrics, checks, dom>>

\* main.go 42-53: c.AddFunc(schedule, ...); go c.Run(); then the metrics
\* endpoint is served (http.ListenAndServe does not return).
MainStartCron ==
    /\ Alive
    /\ mainPc = "startCron"
    /\ mainPc' = "serving"
    /\ UNCHANGED <<now, envVars, jobsRequests, next, exited, metrics, run, checks, dom>>

\* The schedule instant now + 1 is reached: the cron dispatcher starts a
\* goroutine for the registered function (main.go 43-46), which computes
\* `next` and calls exp.Run(next).  Nothing looks at a Run still executing.
CronFire ==
    /\ Alive
    /\ mainPc = "serving"
    /\ now + 2 \in Cycles
    /\ now' = now + 1
    /\ next' = SchedNext(now')
    /\ run' = [run EXCEPT ![now' + 1] = StartedRun(next')]
    /\ UNCHANGED <<envVars, jobsRequests, mainPc, exited, metrics, checks, dom>>

\* -------------------------------------------------------------------- Run
RunStep(c, from, to, m) ==
    /\ Alive
    /\ run[c].pc = from
    /\ run' = [run EXCEPT ![c].pc = to]
    /\ metrics' = m
    /\ UNCHANGED <<now, envVars, jobsRequests, mainPc, next, exited, checks, dom>>

\* pages.go Run: g.metrics.setNextRun(next)
RunSetNextRun(c) ==
    RunStep(c, "setNextRun", "setCheckStateRunning", setNextRun(metrics, run[c].next))

\* g.metrics.setCheckStateRunning()
RunSetCheckStateRunning(c) ==
    RunStep(c, "setCheckStateRunning", "clearPagesMetrics", setCheckStateRunning(metrics))

\* Variant of RunClearPagesMetrics: Run goes on without clearing.
RunClearPagesMetricsSkipped(c) ==
    RunStep(c, "clearPagesMetrics", "goHandleCustomDomains", metrics)

\* g.metrics.clearPagesMetrics()
RunClearPagesMetrics(c) ==
    RunStep(c, "clearPagesMetrics", "goHandleCustomDomains", clearPagesMetrics(metrics))

\* go g.handleCustomDomains(); then handleProjectPages is entered
\* (start := time.Now(), Page: 0, both totals 0).
RunGoHandleCustomDomains(c) ==
    /\ Alive
    /\ run[c].pc = "goHandleCustomDomains"
    /\ dom' = [dom EXCEPT ![c].pc = "ListAllPagesDomains"]
    /\ run' = [run EXCEPT ![c].pc = "ListProjects", ![c].start = now,
                          ![c].Page = 0, ![c].totalProjects = 0,
                          ![c].totalProjectPages = 0]
    /\ UNCHANGED <<now, envVars, jobsRequests, mainPc, next, exited, metrics, checks>>

\* ------------------------------------------------------- handleProjectPages
\* Variant of SkipsMetrics: no result is dropped.
SkipsMetricsNever(hasPagesJob, setAll) == FALSE

\* Variant of SkipsMetrics: negative results are dropped whatever the flag.
SkipsMetricsIgnoringFlag(hasPagesJob, setAll) == ~hasPagesJob

\* pages.go 407-408: if !hasPagesJob && !g.setMetricsForProjectsWithoutPages { return }
SkipsMetrics(hasPagesJob, setAll) == ~hasPagesJob /\ ~setAll

\* Variant of CountedProjects: the total is assigned, not accumulated.
CountedProjectsLastPageOnly(totalProjects, projects) == Len(projects)

\* pages.go 423: totalProjects = totalProjects + len(projects)
CountedProjects(totalProjects, projects) == totalProjects + Len(projects)

\* The worker of the project at position k of the inventory, as spawned for
\* the page being handled.
SpawnedWorkers(c, page, projects) ==
    [k \in DOMAIN checks[c] |->
        IF k >= FirstOfPage(page) /\ k < FirstOfPage(page) + Len(projects)
        THEN [IdleWorker EXCEPT !.pc = "check",
                                !.project = projects[k - FirstOfPage(page) + 1]]
        ELSE checks[c][k]]

\* pages.go 396-414: ListProjects(projOpts), the error only logged, then one
\* goroutine per project of the answer (wg.Add(1); go func ...).
ListProjects(c) ==
    /\ Alive
    /\ run[c].pc = "ListProjects"
    /\ \E r \in ListProjectsResponses(run[c].Page, inventory) :
          /\ run' = [run EXCEPT ![c].pc = "wgWait", ![c].projects = r.projects,
                                ![c].resp = r.resp, ![c].err = r.err,
                                ![c].wg = Len(r.projects)]
          /\ checks' = [checks EXCEPT ![c] = SpawnedWorkers(c, run[c].Page, r.projects)]
    /\ UNCHANGED <<now, envVars, jobsRequests, mainPc, next, exited, metrics, dom>>

\* pages.go 406-411: checkProjectForPagesJob and the branch on its result.
WorkerCheck(c, k) ==
    /\ Alive
    /\ checks[c][k].pc = "check"
    /\ \E response \in JobsResponses :
          LET res == checkProjectForPagesJob(checks[c][k].project, response)
              done == SkipsMetrics(res.hasPagesJob, setMetricsForProjectsWithoutPages)
          IN /\ checks' = [checks EXCEPT
                              ![c][k].err = res.requested /\ response.err,
                              ![c][k].hasPagesJob = res.hasPagesJob,
                              ![c][k].checkState = res.checkState,
                              ![c][k].pc = IF done THEN "done"
                                           ELSE IF res.hasPagesJob THEN "load"
                                           ELSE "set"]
             /\ jobsRequests' = IF res.requested
                                THEN jobsRequests \cup {checks[c][k].project.ID}
                                ELSE jobsRequests
             /\ run' = [run EXCEPT ![c].wg = IF done THEN @ - 1 ELSE @]
    /\ UNCHANGED <<now, envVars, mainPc, next, exited, metrics, dom>>

\* pages.go 410: totalProjectPages += 1, the read of the shared local.
WorkerLoad(c, k) ==
    /\ Alive
    /\ checks[c][k].pc = "load"
    /\ checks' = [checks EXCEPT ![c][k].tmp = run[c].totalProjectPages,
                                ![c][k].pc = "store"]
    /\ UNCHANGED <<now, envVars, jobsRequests, mainPc, next, exited, metrics, run, dom>>

\* pages.go 410: totalProjectPages += 1, the write of the shared local.
WorkerStore(c, k) ==
    /\ Alive
    /\ checks[c][k].pc = "store"
    /\ run' = [run EXCEPT ![c].totalProjectPages = checks[c][k].tmp + 1]
    /\ checks' = [checks EXCEPT ![c][k].tmp = 0, ![c][k].pc = "set"]
    /\ UNCHANGED <<now, envVars, jobsRequests, mainPc, next, exited, metrics, dom>>

\* pages.go 412 and the deferred wg.Done().
WorkerSet(c, k) ==
    /\ Alive
    /\ checks[c][k].pc = "set"
    /\ metrics' = setProjectPagesMetrics(metrics, checks[c][k].project,
                                         checks[c][k].hasPagesJob,
                                         checks[c][k].checkState)
    /\ checks' = [checks EXCEPT ![c][k].pc = "done"]
    /\ run' = [run EXCEPT ![c].wg = @ - 1]
    /\ UNCHANGED <<now, envVars, jobsRequests, mainPc, next, exited, dom>>

\* Variant of WgWait: the loop goes on without waiting for the workers.
WgWaitNotWaiting(c) ==
    /\ Alive
    /\ run[c].pc = "wgWait"
    /\ ~run[c].resp.isNil
    /\ run' = [run EXCEPT
                  ![c].Page = run[c].resp.NextPage,
                  ![c].totalProjects = CountedProjects(@, run[c].projects),
                  ![c].elapsed = IF run[c].resp.NextPage = 0 THEN now - run[c].start ELSE @,
                  ![c].pc = IF run[c].resp.NextPage = 0
                            THEN "setNumberOfProjects" ELSE "ListProjects"]
    /\ UNCHANGED <<now, envVars, jobsRequests, mainPc, next, exited, metrics, checks, dom>>

\* pages.go 415-427: wg.Wait() returned and resp is there: the log line,
\* projOpts.Page = resp.NextPage, the total, the loop exit (and then
\* elapsed := time.Since(start)).
WgWait(c) ==
    /\ Alive
    /\ run[c].pc = "wgWait"
    /\ run[c].wg = 0
    /\ ~run[c].resp.isNil
    /\ run' = [run EXCEPT
                  ![c].Page = run[c].resp.NextPage,
                  ![c].totalProjects = CountedProjects(@, run[c].projects),
                  ![c].elapsed = IF run[c].resp.NextPage = 0 THEN now - run[c].start ELSE @,
                  ![c].pc = IF run[c].resp.NextPage = 0
                            THEN "setNumberOfProjects" ELSE "ListProjects"]
    /\ UNCHANGED <<now, envVars, jobsRequests, mainPc, next, exited, metrics, checks, dom>>

\* pages.go 417-421: wg.Wait() returned and resp is nil: resp.CurrentPage
\* panics.  The start-up Run is a bare goroutine, the panic ends the process;
\* a Run started by the cron dispatcher ends the process too unless the
\* dispatcher recovers the panic of its job.
NilResponsePanic(c) ==
    /\ Alive
    /\ run[c].pc = "wgWait"
    /\ run[c].wg = 0
    /\ run[c].resp.isNil
    /\ \E recovered \in (IF c = 1 THEN {FALSE} ELSE BOOLEAN) :
          IF recovered
          THEN /\ run' = [run EXCEPT ![c].pc = "panicked"]
               /\ UNCHANGED exited
          ELSE /\ exited' = "panic"
               /\ UNCHANGED run
    /\ UNCHANGED <<now, envVars, jobsRequests, mainPc, next, metrics, checks, dom>>

\* pages.go 437
RunSetNumberOfProjects(c) ==
    RunStep(c, "setNumberOfProjects", "setTotalProjectPages",
            setNumberOfProjects(metrics, run[c].totalProjects))

\* pages.go 438
RunSetTotalProjectPages(c) ==
    RunStep(c, "setTotalProjectPages", "setLastCheckMetrics",
            setTotalProjectPages(metrics, run[c].totalProjectPages))

\* pages.go 439
RunSetLastCheckMetrics(c) ==
    RunStep(c, "setLastCheckMetrics", "setCheckStateFinished",
            setLastCheckMetrics(metrics, run[c].elapsed, now))

\* Variant of RunSetCheckStateFinished: Run goes on to the counter with the
\* running gauge left as it is.
RunSetCheckStateFinishedSkipped(c) ==
    RunStep(c, "setCheckStateFinished", "increaseNumberOfScrapes", metrics)

\* Run: g.metrics.setCheckStateFinished()
RunSetCheckStateFinished(c) ==
    RunStep(c, "setCheckStateFinished", "increaseNumberOfScrapes",
            setCheckStateFinished(metrics))

\* Run: g.metrics.increaseNumberOfScrapes(), and Run returns.
RunIncreaseNumberOfScrapes(c) ==
    RunStep(c, "increaseNumberOfScrapes", "done", increaseNumberOfScrapes(metrics))

\* ------------------------------------------------------ handleCustomDomains
\* pages.go 446-454: ListAllPagesDomains, the error only logged, then one
\* goroutine per domain of the answer, none of them waited for.
DomainsList(c) ==
    /\ Alive
    /\ dom[c].pc = "ListAllPagesDomains"
    /\ \E r \in ListAllPagesDomainsResponses(domains) :
          dom' = [dom EXCEPT ![c].pc = "setTotalCustomDomains",
                             ![c].customDomains = r.customDomains,
                             ![c].err = r.err,
                             ![c].pending = 1..Len(r.customDomains)]
    /\ UNCHANGED <<now, envVars, jobsRequests, mainPc, next, exited, metrics, run, checks>>

\* pages.go 453: go g.metrics.setCustomDomainMetrics(domain), when it runs.
DomainRecord(c, j) ==
    /\ Alive
    /\ j \in dom[c].pending
    /\ metrics' = setCustomDomainMetrics(metrics, dom[c].customDomains[j])
    /\ dom' = [dom EXCEPT ![c].pending = @ \ {j}]
    /\ UNCHANGED <<now, envVars, jobsRequests, mainPc, next, exited, run, checks>>

\* pages.go 456-462: totalCustomDomains := len(customDomains), published.
DomainsSetTotal(c) ==
    /\ Alive
    /\ dom[c].pc = "setTotalCustomDomains"
    /\ metrics' = setTotalCustomDomains(metrics, Len(dom[c].customDomains))
    /\ dom' = [dom EXCEPT ![c].pc = "done"]
    /\ UNCHANGED <<now, envVars, jobsRequests, mainPc, next, exited, run, checks>>

\* ------------------------------------------------------------ specification
Positions == DOMAIN inventory

CycleNext ==
    \/ MainConfigure
    \/ MainGoRun
    \/ MainStartCron
    \/ \E c \in Cycles : RunSetNextRun(c)
    \/ \E c \in Cycles : RunSetCheckStateRunning(c)
    \/ \E c \in Cycles : RunClearPagesMetrics(c)
    \/ \E c \in Cycles : RunGoHandleCustomDomains(c)
    \/ \E c \in Cycles : ListProjects(c)
    \/ \E c \in Cycles, k \in Positions : WorkerCheck(c, k)
    \/ \E c \in Cycles, k \in Positions : WorkerLoad(c, k)
    \/ \E c \in Cycles, k \in Positions : WorkerStore(c, k)
    \/ \E c \in Cycles, k \in Positions : WorkerSet(c, k)
    \/ \E c \in Cycles : WgWait(c)
    \/ \E c \in Cycles : NilResponsePanic(c)
    \/ \E c \in Cycles : RunSetNumberOfProjects(c)
    \/ \E c \in Cycles : RunSetTotalProjectPages(c)
    \/ \E c \in Cycles : RunSetLastCheckMetrics(c)
    \/ \E c \in Cycles : RunSetCheckStateFinished(c)
    \/ \E c \in Cycles : RunIncreaseNumberOfScrapes(c)
    \/ \E c \in Cycles : DomainsList(c)
    \/ \E c \in Cycles, j \in 1..Len(domains) : DomainRecord(c, j)
    \/ \E c \in Cycles : DomainsSetTotal(c)

Next == CycleNext \/ CronFire

\* The process with every cron firing the bounds allow.
Spec == Init /\ [][Next]_vars

\* The process up to the first cron firing: the start-up Run alone.
SpecSingle == InitSingle /\ [][CycleNext]_vars

\* A schedule whose period is longer than a Run takes: the instant is reached
\* when no Run execution is between its entry and its return.  The goroutines
\* a returned Run left behind (handleCustomDomains and its recorders) may
\* still be running.
CronFireAfterRun ==
    /\ \A c \in Cycles : run[c].pc \in {"idle", "done", "panicked"}
    /\ CronFire

NextSequential == CycleNext \/ CronFireAfterRun

\* The process with Run executions that follow one another.
SpecSequential == Init /\ [][NextSequential]_vars

\* Settings as the environment may provide them: each of the two required
\* ones present or missing, the schedule unset, valid or not parsable.
Configs ==
    [token : {"", "t"}, apiUrl : {"", "u"},
     schedule : {"", "0 0 * * * *", "every day"}]

InitConfig ==
    /\ now = 0
    /\ inventory = [k \in 1..NumProjects |-> ProjectAt(k, 0, "builds")]
    /\ domains = [j \in 1..NumDomains |-> DomainAt(j)]
    /\ jobsRequests = {}
    /\ jobsAnswers = <<>>
    /\ config \in Configs
    /\ mainPc = "start"
    /\ next = 0
    /\ exited = "no"
    /\ setMetricsForProjectsWithoutPages \in BOOLEAN
    /\ metrics = NewMetrics
    /\ run = [c \in Cycles |-> IdleRun]
    /\ checks = [c \in Cycles |-> [k \in 1..NumProjects |-> IdleWorker]]
    /\ dom = [c \in Cycles |-> IdleDomains]

\* The process from any settings, Run executions following one another.
SpecConfig == InitConfig /\ [][NextSequential]_vars

\* checkProjectForPagesJob alone: any project of the inventory, maybe
\* disabled, and for each the answer its lookup is bound to give.
InitCheck ==
    /\ now = 0
    /\ \E at \in 0..NumProjects, dis \in {"builds", "pages", "both"} :
          inventory = [k \in 1..NumProjects |-> ProjectAt(k, at, dis)]
    /\ domains = <<>>
    /\ jobsRequests = {}
    /\ jobsAnswers \in [1..NumProjects -> JobsResponses]
    /\ config = [token |-> "t", apiUrl |-> "u", schedule |-> ""]
    /\ mainPc = "serving"
    /\ next = 0
    /\ exited = "no"
    /\ setMetricsForProjectsWithoutPages \in BOOLEAN
    /\ metrics = NewMetrics
    /\ run = [c \in Cycles |-> IdleRun]
    /\ checks = [c \in Cycles |-> [k \in 1..NumProjects |-> IdleWorker]]
    /\ dom = [c \in Cycles |-> IdleDomains]

\* g.checkProjectForPagesJob(project) is called for the project at position
\* k and returns; the worker record keeps what it returned.
CheckProject(k) ==
    /\ checks[1][k].pc = "none"
    /\ LET res == checkProjectForPagesJob(inventory[k], jobsAnswers[k])
       IN /\ checks' = [checks EXCEPT ![1][k] =
                           [IdleWorker EXCEPT !.pc = "done",
                                              !.project = inventory[k],
                                              !.err = res.requested /\ jobsAnswers[k].err,
                                              !.hasPagesJob = res.hasPagesJob,
                                              !.checkState = res.checkState]]
          /\ jobsRequests' = IF res.requested
                             THEN jobsRequests \cup {inventory[k].ID}
                             ELSE jobsRequests
    /\ UNCHANGED <<now, envVars, mainPc, next, exited, metrics, run, dom>>

NextCheck == \E k \in Positions : CheckProject(k)

SpecCheck == InitCheck /\ [][NextCheck]_vars

\* The steps of main, of Run execution c with handleProjectPages, of the
\* page worker at position k and of the domain goroutines of execution c.
MainSteps == MainConfigure \/ MainGoRun \/ MainStartCron

RunSteps(c) ==
    \/ RunSetNextRun(c)
    \/ RunSetCheckStateRunning(c)
    \/ RunClearPagesMetrics(c)
    \/ RunGoHandleCustomDomains(c)
    \/ ListProjects(c)
    \/ WgWait(c)
    \/ NilResponsePanic(c)
    \/ RunSetNumberOfProjects(c)
    \/ RunSetTotalProjectPages(c)
    \/ RunSetLastCheckMetrics(c)
    \/ RunSetCheckStateFinished(c)
    \/ RunIncreaseNumberOfScrapes(c)

WorkerSteps(c, k) ==
    WorkerCheck(c, k) \/ WorkerLoad(c, k) \/ WorkerStore(c, k) \/ WorkerSet(c, k)

DomainSteps(c) ==
    \/ DomainsList(c)
    \/ DomainsSetTotal(c)
    \/ \E j \in 1..Len(domains) : DomainRecord(c, j)

\* The Go scheduler lets every goroutine that can run do so eventually; every
\* remote call returns (each call step is a step of its goroutine).
Fairness ==
    /\ WF_vars(MainSteps)
    /\ \A c \in Cycles : WF_vars(RunSteps(c))
    /\ \A c \in Cycles : \A k \in 1..NumProjectsSingle : WF_vars(WorkerSteps(c, k))
    /\ \A c \in Cycles : WF_vars(DomainSteps(c))

\* The start-up Run alone under a fair scheduler.
SpecSingleFair == InitSingle /\ [][CycleNext]_vars /\ Fairness

\* ------------------------------- exporter/pages.go: fetchProjectPagesMetrics
\* The revision of exporter/pages.go at the entry of fetchProjectPagesMetrics
\* in its Run: running set, both vectors cleared, Page: 1, totalProjects 0.
InitFetch ==
    /\ now = 0
    /\ \E at \in 0..NumProjectsSingle, dis \in {"builds", "pages", "both"} :
          inventory = [k \in 1..NumProjectsSingle |-> ProjectAt(k, at, dis)]
    /\ domains = <<>>
    /\ jobsRequests = {}
    /\ jobsAnswers = <<>>
    /\ config = [token |-> "t", apiUrl |-> "u", schedule |-> ""]
    /\ mainPc = "serving"
    /\ next = 0
    /\ exited = "no"
    /\ setMetricsForProjectsWithoutPages = TRUE
    /\ metrics = [NewMetrics EXCEPT !.checkState = 1]
    /\ run = [c \in Cycles |->
                IF c = 1 THEN [IdleRun EXCEPT !.pc = "fetchListProjects", !.Page = 1]
                ELSE IdleRun]
    /\ checks = [c \in Cycles |-> [k \in 1..NumProjectsSingle |-> IdleWorker]]
    /\ dom = [c \in Cycles |-> IdleDomains]

\* exporter/pages.go 112-116: ListProjects(projOpts), the error only logged.
FetchListProjects ==
    /\ Alive
    /\ run[1].pc = "fetchListProjects"
    /\ \E r \in ListProjectsResponses(run[1].Page, inventory) :
          run' = [run EXCEPT ![1].pc = "fetchNextPage", ![1].projects = r.projects,
                             ![1].resp = r.resp, ![1].err = r.err]
    /\ UNCHANGED <<now, envVars, jobsRequests, mainPc, next, exited, metrics, checks, dom>>

\* exporter/pages.go 118: resp.NextPage of a nil response panics; Run is a
\* goroutine nobody recovers.
FetchNilResponsePanic ==
    /\ Alive
    /\ run[1].pc = "fetchNextPage"
    /\ run[1].resp.isNil
    /\ exited' = "panic"
    /\ UNCHANGED <<now, envVars, jobsRequests, mainPc, next, metrics, run, checks, dom>>

\* exporter/pages.go 118-120 and 129: if resp.NextPage == 0 { break }, then
\* elapsed := time.Since(start).
FetchBreak ==
    /\ Alive
    /\ run[1].pc = "fetchNextPage"
    /\ ~run[1].resp.isNil
    /\ run[1].resp.NextPage = 0
    /\ run' = [run EXCEPT ![1].pc = "fetchSetLastCheckMetrics",
                          ![1].elapsed = now - run[1].start]
    /\ UNCHANGED <<now, envVars, jobsRequests, mainPc, next, exited, metrics, checks, dom>>

\* exporter/pages.go 122-128: one goroutine per project of the page
\* (go g.setProjectPagesMetrics(project)), projOpts.Page = resp.NextPage,
\* totalProjects = totalProjects + len(projects).
FetchLaunch ==
    /\ Alive
    /\ run[1].pc = "fetchNextPage"
    /\ ~run[1].resp.isNil
    /\ run[1].resp.NextPage # 0
    /\ checks' = [checks EXCEPT ![1] = SpawnedWorkers(1, run[1].Page, run[1].projects)]
    /\ run' = [run EXCEPT ![1].pc = "fetchListProjects",
                          ![1].Page = run[1].resp.NextPage,
                          ![1].totalProjects = @ + Len(run[1].projects)]
    /\ UNCHANGED <<now, envVars, jobsRequests, mainPc, next, exited, metrics, dom>>

\* exporter/pages.go 131: g.setLastCheckMetrics(&elapsed)
FetchSetLastCheckMetrics ==
    /\ Alive
    /\ run[1].pc = "fetchSetLastCheckMetrics"
    /\ metrics' = setLastCheckMetrics(metrics, run[1].elapsed, now)
    /\ run' = [run EXCEPT ![1].pc = "fetched"]
    /\ UNCHANGED <<now, envVars, jobsRequests, mainPc, next, exited, checks, dom>>

\* exporter/pages.go 167-203: setProjectPagesMetrics(project) of that
\* revision, in its goroutine: the lookup unless the project is disabled,
\* then the series is set whatever the result.
FetchedProjectRecord(k) ==
    /\ Alive
    /\ checks[1][k].pc = "check"
    /\ \E response \in JobsResponses :
          LET res == checkProjectForPagesJob(checks[1][k].project, response)
          IN /\ checks' = [checks EXCEPT
                              ![1][k].err = res.requested /\ response.err,
                              ![1][k].hasPagesJob = res.hasPagesJob,
                              ![1][k].checkState = res.checkState,
                              ![1][k].pc = "done"]
             /\ jobsRequests' = IF res.requested
                                THEN jobsRequests \cup {checks[1][k].project.ID}
                                ELSE jobsRequests
             /\ metrics' = setProjectPagesMetrics(metrics, checks[1][k].project,
                                                  res.hasPagesJob, res.checkState)
    /\ UNCHANGED <<now, envVars, mainPc, next, exited, run, dom>>

NextFetch ==
    \/ FetchListProjects
    \/ FetchNilResponsePanic
    \/ FetchBreak
    \/ FetchLaunch
    \/ FetchSetLastCheckMetrics
    \/ \E k \in Positions : FetchedProjectRecord(k)

SpecFetch == InitFetch /\ [][NextFetch]_vars

\* ================================================================ properties
\* Positions of a Run execution.
Executing(c) == run[c].pc \notin {"idle", "done", "panicked"}

AfterSetNumberOfProjects ==
    {"setTotalProjectPages", "setLastCheckMetrics", "setCheckStateFinished",
     "increaseNumberOfScrapes", "done"}

AfterSetTotalProjectPages ==
    {"setLastCheckMetrics", "setCheckStateFinished", "increaseNumberOfScrapes", "done"}

\* The worker of position k has returned from checkProjectForPagesJob.
Checked(c, k) == checks[c][k].pc \notin {"none", "check"}

\* The projects Run execution c was given by the pages it fetched.
Observed(c) == {k \in Positions : checks[c][k].pc # "none"}

\* Those of them whose check returned hasPagesJob = true.
WithPages(c) == {k \in Observed(c) : Checked(c, k) /\ checks[c][k].hasPagesJob}

\* Those of them the flag lets into the project-pages family.
Published(c) ==
    IF setMetricsForProjectsWithoutPages THEN Observed(c) ELSE WithPages(c)

SeriesOf(c, k) == ProjectLabels(checks[c][k].project, checks[c][k].checkState)

Disabled(project) ==
    project.BuildsAccessLevel = "disabled" \/ project.PagesAccessLevel = "disabled"

\* The project-pages family holds exactly one series per published project
\* of Run execution c, with the value its check returned.
ProjectPagesAreThoseOf(c) ==
    /\ DOMAIN metrics.projectPages = {SeriesOf(c, k) : k \in Published(c)}
    /\ Cardinality(DOMAIN metrics.projectPages) = Cardinality(Published(c))
    /\ \A k \in Published(c) :
          metrics.projectPages[SeriesOf(c, k)] = IF checks[c][k].hasPagesJob THEN 1 ELSE 0

\* C1 (as claimed): at most one Run execution is between its start and its
\* completion at any time, whatever triggers arrive.
C1_AtMostOneRunExecuting ==
    Cardinality({c \in Cycles : Executing(c)}) <= 1

\* C2: once the Run of a single cycle has completed, the project-pages family
\* holds exactly one series per observed project when the publish-all flag is
\* set, one per project whose check returned true otherwise, and no other.
C2_SeriesAfterRun ==
    \A c \in Cycles : run[c].pc = "done" => ProjectPagesAreThoseOf(c)

\* C2 witness: a completed Run without the flag that observed three projects
\* and published some but not all of them.
C2_Witness ==
    /\ run[1].pc = "done"
    /\ ~setMetricsForProjectsWithoutPages
    /\ Cardinality(Observed(1)) = 3
    /\ Cardinality(Published(1)) = 2

\* C3: after handleProjectPages has published projects_checked_total, its
\* value is the number of projects returned over all pages fetched, for both
\* values of the flag and whatever the checks returned.
C3_ProjectsCheckedCountsAll ==
    \A c \in Cycles :
        run[c].pc \in AfterSetNumberOfProjects =>
            metrics.projectsChecked = Cardinality(Observed(c))

\* C3 witness: two pages were fetched, a check failed, nothing was published
\* for want of the flag, and the total is 3.
C3_Witness ==
    /\ run[1].pc = "done"
    /\ ~setMetricsForProjectsWithoutPages
    /\ metrics.projectsChecked = 3
    /\ metrics.projectPages = <<>>
    /\ \E k \in Positions : checks[1][k].checkState = Failed

\* C4 (as claimed): once project_pages_total is published it is the number
\* of observed projects whose check returned true, under every interleaving
\* of the checks of a page.
C4_ProjectPagesTotalCountsAll ==
    \A c \in Cycles :
        run[c].pc \in AfterSetTotalProjectPages =>
            metrics.projectPagesTotal = Cardinality(WithPages(c))

\* C4 scenario: A has a pages job, B has none, C is disabled, flag off: the
\* totals read 3 and 1.
C4_Scenario ==
    /\ run[1].pc = "done"
    /\ ~setMetricsForProjectsWithoutPages
    /\ checks[1][1].hasPagesJob
    /\ ~checks[1][2].hasPagesJob /\ checks[1][2].checkState = Succeeded
    /\ Disabled(checks[1][3].project)
    /\ metrics.projectsChecked = 3
    /\ metrics.projectPagesTotal = 1

\* C5: the check of a project whose builds or pages access level is
\* "disabled" returns (false, succeeded), and ListProjectJobs is never called
\* for that project.
C5_DisabledShortCircuits ==
    \A c \in Cycles, k \in Positions :
        (Checked(c, k) /\ Disabled(checks[c][k].project)) =>
            /\ ~checks[c][k].hasPagesJob
            /\ checks[c][k].checkState = Succeeded
            /\ checks[c][k].project.ID \notin jobsRequests

\* C5 witness: a project with only its pages access level disabled has been
\* checked while lookups were issued for the other projects.
C5_Witness ==
    \E k \in Positions :
        /\ checks[1][k].pc = "done"
        /\ checks[1][k].project.PagesAccessLevel = "disabled"
        /\ checks[1][k].project.BuildsAccessLevel = "enabled"
        /\ jobsRequests # {}

\* C6: number_of_scrapes never decreases and counts exactly the Run
\* executions that reached their end, whatever errors they met.
C6_ScrapesCountCompletedRuns ==
    /\ [](metrics.numberOfScrapes = Cardinality({c \in Cycles : run[c].pc = "done"}))
    /\ [][metrics.numberOfScrapes' >= metrics.numberOfScrapes]_vars

\* C6 witness: two Run executions completed, one of them after a failed
\* check, a failed page listing and a failed domain listing.
C6_Witness ==
    /\ metrics.numberOfScrapes = 2
    /\ \E c \in Cycles :
          /\ run[c].pc = "done"
          /\ run[c].err
          /\ dom[c].err
    /\ \E c \in Cycles, k \in Positions : checks[c][k].checkState = Failed

\* C7: a project whose lookup failed is checked as (false, failed); at the
\* end of the cycle, with the flag set, it has a series of value 0 and check
\* status failed, every other project has the series of its own check, and
\* the lifetime counter was incremented.
C7_FailedLookupIsData ==
    \A c \in Cycles, k \in Positions :
        (Checked(c, k) /\ checks[c][k].err) =>
            /\ ~checks[c][k].hasPagesJob
            /\ checks[c][k].checkState = Failed
            /\ run[c].pc = "done" =>
                  /\ metrics.numberOfScrapes >= 1
                  /\ setMetricsForProjectsWithoutPages =>
                        /\ ProjectLabels(checks[c][k].project, Failed)
                              \in DOMAIN metrics.projectPages
                        /\ metrics.projectPages[ProjectLabels(checks[c][k].project, Failed)] = 0
                  /\ \A j \in Published(c) \ {k} :
                        /\ SeriesOf(c, j) \in DOMAIN metrics.projectPages
                        /\ metrics.projectPages[SeriesOf(c, j)]
                              = IF checks[c][j].hasPagesJob THEN 1 ELSE 0

\* C7 witness: the cycle completed with the flag set; B's lookup failed on the
\* page where A was found to have a pages job.
C7_Witness ==
    /\ run[1].pc = "done"
    /\ setMetricsForProjectsWithoutPages
    /\ checks[1][2].err
    /\ checks[1][1].hasPagesJob
    /\ metrics.numberOfScrapes = 1
    /\ Cardinality(DOMAIN metrics.projectPages) = 3

\* C8 (as claimed): a failed page listing, with or without a response
\* object, never lets a failure out of Run: the process does not end and the
\* Run execution is not aborted.
C8_ListingErrorNeverPropagates ==
    \A c \in Cycles :
        run[c].err => (exited # "panic" /\ run[c].pc # "panicked")

\* C8 scenario: a failed listing that came with a response ends pagination
\* and the cycle completes with the totals of the pages handled before.
C8_Scenario ==
    /\ run[1].pc = "done"
    /\ run[1].err
    /\ metrics.projectsChecked = 2
    /\ metrics.checkState = 0
    /\ metrics.numberOfScrapes = 1

\* The state the domain branch does not own.
ResourceSide ==
    <<metrics.projectPages, metrics.projectsChecked, metrics.projectPagesTotal,
      metrics.numberOfScrapes, run, checks, jobsRequests>>

\* A step of handleCustomDomains or of one of its recorders.
DomainBranchStep(c) == dom[c].pc # "none" /\ dom'[c] # dom[c]

\* C9: when the domain listing failed, the cycle's domain branch records no
\* domain series and publishes a domains total of 0; no step of the branch
\* touches the resource side, whose series and totals at the end of the
\* cycle are those of the checks alone.
C9_DomainListingFailure ==
    /\ [](\A c \in Cycles :
            (dom[c].err /\ dom[c].pc = "done") =>
                /\ dom[c].pending = {}
                /\ metrics.customDomains = <<>>
                /\ metrics.customDomainsTotal = 0
                /\ run[c].pc = "done" =>
                      /\ ProjectPagesAreThoseOf(c)
                      /\ metrics.projectsChecked = Cardinality(Observed(c)))
    /\ [][\A c \in Cycles : DomainBranchStep(c) => UNCHANGED ResourceSide]_vars

\* C9 witness: the cycle completed after a failed domain listing, with
\* resource series published.
C9_Witness ==
    /\ run[1].pc = "done"
    /\ dom[1].err
    /\ dom[1].pc = "done"
    /\ metrics.customDomainsTotal = 0
    /\ metrics.projectPages # <<>>
    /\ metrics.projectsChecked = 3

\* C10 (as claimed): when a cycle is marked complete, its custom-domain
\* branch has finished: every domain recorded, the domains total written.
C10_DomainBranchJoined ==
    \A c \in Cycles :
        run[c].pc \in {"increaseNumberOfScrapes", "done"} =>
            (dom[c].pc = "done" /\ dom[c].pending = {})

\* Run execution c has returned and so has everything it started.
TasksFinished(c) ==
    /\ run[c].pc = "done"
    /\ dom[c].pc = "done"
    /\ dom[c].pending = {}

\* The domains family a listing of Run execution c stands for: one series
\* per listed domain, valued by its verification.
CustomDomainsOf(c) ==
    LET listed == {dom[c].customDomains[j] : j \in 1..Len(dom[c].customDomains)}
    IN [l \in {<<ToString(d.ProjectID), d.URL>> : d \in listed} |->
           IF (CHOOSE d \in listed : <<ToString(d.ProjectID), d.URL>> = l).Verified
           THEN 1 ELSE 0]

\* Every remote call of Run execution b was answered as that of execution a.
SameLookups(a, b) ==
    /\ Observed(a) = Observed(b)
    /\ \A k \in Observed(a) :
          /\ Checked(a, k) /\ Checked(b, k)
          /\ checks[a][k].project = checks[b][k].project
          /\ checks[a][k].err = checks[b][k].err
          /\ checks[a][k].hasPagesJob = checks[b][k].hasPagesJob
          /\ checks[a][k].checkState = checks[b][k].checkState
    /\ dom[a].pc \in {"setTotalCustomDomains", "done"}
    /\ dom[b].pc \in {"setTotalCustomDomains", "done"}
    /\ dom[a].err = dom[b].err
    /\ dom[a].customDomains = dom[b].customDomains

\* C11: two Run executions one after the other with the same inventory and
\* the same answers to every lookup: after the first one and its goroutines
\* have finished, and again after the second one and its goroutines have
\* finished (and before a third begins), the project-pages family and the domains family are the ones
\* the first execution's answers stand for, so they are equal.
C11_SecondRunRepeatsFirst ==
    /\ (TasksFinished(1) /\ run[2].pc = "idle") =>
          (ProjectPagesAreThoseOf(1) /\ metrics.customDomains = CustomDomainsOf(1))
    /\ (/\ run[1].pc = "done" /\ TasksFinished(2) /\ SameLookups(1, 2)
        /\ \A b \in Cycles : b > 2 => run[b].pc = "idle") =>
          (ProjectPagesAreThoseOf(1) /\ metrics.customDomains = CustomDomainsOf(1))

\* C11 witness: both executions and the goroutines of the second finished
\* with equal answers, a project and a domain were published, while a domain
\* recorder of the first execution has not even run yet.
C11_Witness ==
    /\ run[1].pc = "done"
    /\ TasksFinished(2)
    /\ SameLookups(1, 2)
    /\ metrics.numberOfScrapes = 2
    /\ DOMAIN metrics.projectPages # {}
    /\ DOMAIN metrics.customDomains # {}
    /\ dom[1].pending # {}

\* C12 (as claimed): once a Run execution and every goroutine it started
\* have finished, and no later execution has begun, each series of the
\* project-pages family and of the domains family is one that execution
\* recorded; nothing written by a goroutine of an earlier execution is there.
C12_OnlyOwnSeries ==
    \A c \in Cycles :
        (TasksFinished(c) /\ \A b \in Cycles : b > c => run[b].pc = "idle") =>
            /\ DOMAIN metrics.projectPages \subseteq {SeriesOf(c, k) : k \in Published(c)}
            /\ DOMAIN metrics.customDomains \subseteq DOMAIN CustomDomainsOf(c)

\* C13: the step of a Run execution that calls clearPagesMetrics leaves both
\* families without any series and leaves the scrape counter, the three
\* timing gauges, the running gauge and the three totals as they were.
C13_ClearRemovesFamiliesOnly ==
    [][\A c \in Cycles :
          (run[c].pc = "clearPagesMetrics" /\ run'[c].pc # "clearPagesMetrics") =>
              /\ metrics'.projectPages = <<>>
              /\ metrics'.customDomains = <<>>
              /\ metrics'.numberOfScrapes = metrics.numberOfScrapes
              /\ metrics'.lastCheckDuration = metrics.lastCheckDuration
              /\ metrics'.lastCheckTime = metrics.lastCheckTime
              /\ metrics'.nextCheckTime = metrics.nextCheckTime
              /\ metrics'.checkState = metrics.checkState
              /\ metrics'.projectsChecked = metrics.projectsChecked
              /\ metrics'.projectPagesTotal = metrics.projectPagesTotal
              /\ metrics'.customDomainsTotal = metrics.customDomainsTotal]_vars

\* C13 witness: the second execution has just cleared; the families are
\* empty while the counter, the gauges and the totals still hold what the
\* first execution published for one project and one domain.
C13_Witness ==
    /\ run[2].pc = "goHandleCustomDomains"
    /\ TasksFinished(1)
    /\ metrics.projectPages = <<>>
    /\ metrics.customDomains = <<>>
    /\ metrics.numberOfScrapes = 1
    /\ metrics.checkState = 1
    /\ metrics.nextCheckTime = 2
    /\ metrics.lastCheckTime # NoValue
    /\ metrics.lastCheckDuration # NoValue
    /\ metrics.projectsChecked = 1
    /\ metrics.projectPagesTotal = 1
    /\ metrics.customDomainsTotal = 1

\* Run execution c has issued no listing and started no goroutine yet.
NothingStarted(c) ==
    /\ dom[c] = IdleDomains
    /\ Observed(c) = {}
    /\ run[c].resp = NilResponse
    /\ run[c].projects = <<>>

\* C14: a Run execution publishes its next-run time, then sets the running
\* gauge to 1, then clears both families; it reaches each of these steps
\* once and in this order, series disappear from the families at no other
\* step, and until its clear is done it has issued no listing and started
\* no worker, domain listing or recorder.
C14_FirstStepsInOrder ==
    /\ [](\A c \in Cycles :
            run[c].pc \in {"idle", "setNextRun", "setCheckStateRunning",
                           "clearPagesMetrics"} => NothingStarted(c))
    /\ [][/\ \A c \in Cycles :
              run'[c].pc # run[c].pc =>
                  /\ run'[c].pc = "setNextRun" => run[c].pc = "idle"
                  /\ run[c].pc = "setNextRun" =>
                        /\ run'[c].pc = "setCheckStateRunning"
                        /\ metrics'.nextCheckTime = run[c].next
                  /\ run'[c].pc = "setCheckStateRunning" => run[c].pc = "setNextRun"
                  /\ run[c].pc = "setCheckStateRunning" =>
                        /\ run'[c].pc = "clearPagesMetrics"
                        /\ metrics'.checkState = 1
                  /\ run'[c].pc = "clearPagesMetrics" => run[c].pc = "setCheckStateRunning"
                  /\ run[c].pc = "clearPagesMetrics" =>
                        /\ run'[c].pc = "goHandleCustomDomains"
                        /\ metrics'.projectPages = <<>>
                        /\ metrics'.customDomains = <<>>
          /\ (\A c \in Cycles :
                  ~(run[c].pc = "clearPagesMetrics" /\ run'[c].pc # "clearPagesMetrics")) =>
                  /\ DOMAIN metrics.projectPages \subseteq DOMAIN metrics'.projectPages
                  /\ DOMAIN metrics.customDomains \subseteq DOMAIN metrics'.customDomains]_vars

\* C14 witness: the second execution has published its next-run time, set
\* the running gauge, cleared what the first had recorded, and is now
\* waiting for the workers of its first page, its domain listing under way.
C14_Witness ==
    /\ TasksFinished(1)
    /\ metrics.numberOfScrapes = 1
    /\ run[2].pc = "wgWait"
    /\ metrics.nextCheckTime = run[2].next
    /\ metrics.checkState = 1
    /\ Observed(2) # {}
    /\ dom[2].pc = "ListAllPagesDomains"
    /\ metrics.projectPages = <<>>
    /\ metrics.customDomains = <<>>

\* The workers of Run execution c that have not returned yet.
InFlight(c) == {k \in Positions : checks[c][k].pc \in {"check", "load", "store", "set"}}

\* The page of the listing the project at position k came with.
PageOf(k) == ((k - 1) \div PerPage) + 1

\* C15: whenever a Run execution is about to issue a listing request, every
\* worker it started for the pages before has returned, and has recorded its
\* project if it was to; at any time the workers still running belong to
\* one page and are at most PerPage.
C15_PageBarrier ==
    \A c \in Cycles :
        /\ run[c].pc = "ListProjects" =>
              /\ InFlight(c) = {}
              /\ \A k \in Published(c) : SeriesOf(c, k) \in DOMAIN metrics.projectPages
        /\ Cardinality(InFlight(c)) <= PerPage
        /\ \A k1, k2 \in InFlight(c) : PageOf(k1) = PageOf(k2)

\* C15 witness: the listing of the second page is about to be issued, the
\* two workers of the first page have returned and one of them recorded its
\* project.
C15_Witness ==
    /\ run[1].pc = "ListProjects"
    /\ run[1].Page = 2
    /\ Observed(1) = {1, 2}
    /\ InFlight(1) = {}
    /\ Cardinality(DOMAIN metrics.projectPages) = 1

\* C16 (as claimed): at every moment the project-pages family holds at most
\* one series for a project id; a project recorded again replaces its series.
C16_OneSeriesPerId ==
    \A l1, l2 \in DOMAIN metrics.projectPages : l1[1] = l2[1] => l1 = l2

\* Run execution c has called setCheckStateRunning and not yet
\* setCheckStateFinished.
MarkedRunning(c) ==
    run[c].pc \in {"clearPagesMetrics", "goHandleCustomDomains", "ListProjects",
                   "wgWait", "setNumberOfProjects", "setTotalProjectPages",
                   "setLastCheckMetrics", "setCheckStateFinished"}

\* C17 (as claimed): the running gauge is 1 whenever some Run execution has
\* marked itself running and not yet finished, and it is 0 whenever a Run
\* has completed and none is executing, whatever triggers arrive.
C17_RunningGaugeTracksRuns ==
    /\ (\E c \in Cycles : MarkedRunning(c)) => metrics.checkState = 1
    /\ ((\E c \in Cycles : run[c].pc = "done") /\ (\A c \in Cycles : ~Executing(c))) =>
          metrics.checkState = 0

\* The token or the API URL is missing, or the schedule is set to a text
\* that is no cron expression.
MissingOrUnparsable ==
    \/ config.token = ""
    \/ config.apiUrl = ""
    \/ config.schedule = "every day"

\* C18: with a missing token, a missing API URL or an unparsable schedule
\* the only step main takes is the fatal exit: no Run is ever started, the
\* cron function is not registered and the endpoint is not served (main
\* stays before `go exp.Run`), and no metric is written.
C18_FatalExitAtStartup ==
    /\ [](MissingOrUnparsable =>
            /\ mainPc = "start"
            /\ exited \in {"no", "fatal"}
            /\ now = 0
            /\ \A c \in Cycles : run[c] = IdleRun /\ dom[c] = IdleDomains
            /\ metrics = NewMetrics)
    /\ [][MissingOrUnparsable => exited' = "fatal"]_vars

\* C18 witness: both required settings are there, the schedule is not
\* parsable, and the process has exited fatally.
C18_Witness ==
    /\ config = [token |-> "t", apiUrl |-> "u", schedule |-> "every day"]
    /\ exited = "fatal"
    /\ mainPc = "start"

\* C19: once main has passed `go exp.Run(next)`, that is before the cron
\* function is registered and so before any schedule instant can start a
\* Run, the start-up Run has been started; as long as it has not, no
\* schedule instant has been reached and no other Run exists.
C19_StartupRunFirst ==
    /\ mainPc \in {"startCron", "serving"} => run[1].pc # "idle"
    /\ run[1].pc = "idle" => (now = 0 /\ \A c \in Cycles : run[c].pc = "idle")

\* C19 witness: the start-up Run has completed, with its domain goroutines,
\* and no schedule instant has been reached yet.
C19_Witness ==
    /\ TasksFinished(1)
    /\ metrics.numberOfScrapes = 1
    /\ now = 0
    /\ mainPc = "serving"
    /\ \A c \in Cycles \ {1} : run[c].pc = "idle"

\* The schedule instant that started Run execution c (0: process start).
TriggerTime(c) == c - 1

\* C20 (as claimed): every Run is entered with the schedule's next instant
\* after the time of its own trigger, hence later than its start, and the
\* published next_check_time never decreases.
C20_NextRunMovesForward ==
    /\ [](\A c \in Cycles :
            run[c].pc # "idle" =>
                /\ run[c].next = SchedNext(TriggerTime(c))
                /\ run[c].next > TriggerTime(c))
    /\ [][metrics'.nextCheckTime >= metrics.nextCheckTime]_vars

\* Some job of the answer is named "pages": every job is looked at.
SomeJobNamedPages(jobs) == \E i \in 1..Len(jobs) : jobs[i] = PagesJobName

\* C21: for a project that is not disabled checkProjectForPagesJob returns
\* (false, failed) when the lookup returned an error, (true, succeeded) when
\* it succeeded and some returned job is named "pages", (false, succeeded)
\* when it succeeded and none is; the loop that breaks at the first match
\* gives what a look at every job gives.
C21_CheckResult ==
    \A k \in Positions :
        (checks[1][k].pc = "done" /\ ~Disabled(inventory[k])) =>
            LET answer == jobsAnswers[k]
                result == <<checks[1][k].hasPagesJob, checks[1][k].checkState>>
            IN /\ answer.err => result = <<FALSE, Failed>>
               /\ (~answer.err /\ SomeJobNamedPages(answer.jobs)) =>
                     result = <<TRUE, Succeeded>>
               /\ (~answer.err /\ ~SomeJobNamedPages(answer.jobs)) =>
                     result = <<FALSE, Succeeded>>
               /\ result = <<TRUE, Succeeded>> =>
                     (~answer.err /\ SomeJobNamedPages(answer.jobs))

\* C21 witness: the job named "pages" comes second in the answer and the
\* check returned (true, succeeded).
C21_Witness ==
    /\ checks[1][1].pc = "done"
    /\ ~Disabled(inventory[1])
    /\ jobsAnswers[1] = [err |-> FALSE, jobs |-> <<"build", PagesJobName>>]
    /\ checks[1][1].hasPagesJob
    /\ checks[1][1].checkState = Succeeded

\* The totals and the timing gauges hold what Run execution c computed.
TotalsAndTimingOf(c) ==
    /\ metrics.projectsChecked = run[c].totalProjects
    /\ metrics.projectPagesTotal = run[c].totalProjectPages
    /\ metrics.lastCheckDuration = run[c].elapsed
    /\ metrics.lastCheckTime \in run[c].start..now

\* C22: when a Run execution is about to set the running gauge to 0 its
\* totals and timing are already published; when it is about to increase
\* the scrape counter the running gauge is already 0; the counter counts the
\* executions that returned and none that is still on its way; and once an
\* execution has returned, and until another begins, the totals and timing
\* are its own.
C22_CompletionOrder ==
    /\ metrics.numberOfScrapes = Cardinality({c \in Cycles : run[c].pc = "done"})
    /\ \A c \in Cycles :
          /\ run[c].pc \in {"setCheckStateFinished", "increaseNumberOfScrapes"} =>
                TotalsAndTimingOf(c)
          /\ run[c].pc = "increaseNumberOfScrapes" => metrics.checkState = 0
          /\ (run[c].pc = "done" /\ \A b \in Cycles : b > c => run[b].pc = "idle") =>
                TotalsAndTimingOf(c)

\* C22 witness: the second execution has published totals and timing and
\* set the running gauge to 0; the counter still shows 1.
C22_Witness ==
    /\ run[1].pc = "done"
    /\ run[2].pc = "increaseNumberOfScrapes"
    /\ metrics.numberOfScrapes = 1
    /\ metrics.checkState = 0
    /\ metrics.projectsChecked = 1
    /\ metrics.projectPagesTotal = 1
    /\ metrics.lastCheckTime = 1

\* C23 (as claimed): under a fair scheduler, with every remote call
\* returning an answer or an error and finitely many pages, every Run
\* execution that was started eventually reaches its end: the running gauge
\* set to 0 and the scrape counter increased.
C23_StartedRunEnds ==
    \A c \in Cycles : (run[c].pc # "idle") ~> (run[c].pc = "done")

\* C23, the part that holds: a started Run execution eventually reaches its
\* end or the process has died of the nil listing response.
C23_EndsUnlessPanic ==
    \A c \in Cycles : (run[c].pc # "idle") ~> (run[c].pc = "done" \/ exited = "panic")

\* The inventory positions of the projects of the page held in `projects`.
LastReturned == {run[1].projects[i].ID : i \in 1..Len(run[1].projects)}

\* C24 (as claimed): in fetchProjectPagesMetrics of exporter/pages.go, when
\* the loop has ended every project of every fetched page, the page without
\* a next page included, has had its goroutine launched and is counted in
\* totalProjects.
C24_LastPageHandled ==
    run[1].pc \in {"fetchSetLastCheckMetrics", "fetched"} =>
        /\ LastReturned \subseteq Observed(1)
        /\ run[1].totalProjects = Cardinality(Observed(1) \cup LastReturned)

\* C24 scenario: three projects in pages of two; the loop has ended, the two
\* projects of the first page were launched and counted, the third, returned
\* with the page that has no next page, was not.
C24_Scenario ==
    /\ run[1].pc = "fetched"
    /\ Observed(1) = {1, 2}
    /\ LastReturned = {3}
    /\ run[1].totalProjects = 2

\* C25: every series of the project-pages family with check status failed
\* has value 0 and is there only with the publish-all flag; without the
\* flag, once a Run has returned, a project it checked without finding a
\* pages job has no series of its own, whether its lookup failed or not.
C25_FailedSeries ==
    /\ \A l \in DOMAIN metrics.projectPages :
          l[5] = Failed =>
              (metrics.projectPages[l] = 0 /\ setMetricsForProjectsWithoutPages)
    /\ ~setMetricsForProjectsWithoutPages =>
          \A c \in Cycles, k \in Positions :
              (run[c].pc = "done" /\ Checked(c, k) /\ ~checks[c][k].hasPagesJob) =>
                  \A l \in DOMAIN metrics.projectPages :
                      l[1] # ToString(checks[c][k].project.ID)

\* C25 witness: with the flag, a returned Run has published a failed lookup
\* (status failed, value 0) next to a conclusive negative (status succeeded,
\* value 0).
C25_Witness ==
    /\ run[1].pc = "done"
    /\ setMetricsForProjectsWithoutPages
    /\ checks[1][1].err
    /\ ProjectLabels(checks[1][1].project, Failed) \in DOMAIN metrics.projectPages
    /\ metrics.projectPages[ProjectLabels(checks[1][1].project, Failed)] = 0
    /\ ~checks[1][2].err /\ ~checks[1][2].hasPagesJob
    /\ ProjectLabels(checks[1][2].project, Succeeded) \in DOMAIN metrics.projectPages
    /\ metrics.projectPages[ProjectLabels(checks[1][2].project, Succeeded)] = 0

\* C26: once handleCustomDomains of a Run execution and all its recorders
\* have finished, no other execution interfering, the domains family holds
\* exactly one series per (project id, URL) of the listing, valued 1 for a
\* verified domain and 0 otherwise whatever the check of the owning project
\* returned, and the domains total is the length of the listing.
C26_DomainsFamily ==
    \A c \in Cycles :
        (dom[c].pc = "done" /\ dom[c].pending = {}) =>
            /\ metrics.customDomains = CustomDomainsOf(c)
            /\ Cardinality(DOMAIN metrics.customDomains) = Len(dom[c].customDomains)
            /\ \A j \in 1..Len(dom[c].customDomains) :
                  LET d == dom[c].customDomains[j]
                  IN metrics.customDomains[<<ToString(d.ProjectID), d.URL>>]
                        = IF d.Verified THEN 1 ELSE 0
            /\ metrics.customDomainsTotal = Len(dom[c].customDomains)

\* C26 witness: two domains listed and recorded; the verified one belongs to
\* a project found without a pages job, the unverified one to a project
\* found with one.
C26_Witness ==
    /\ TasksFinished(1)
    /\ Len(dom[1].customDomains) = 2
    /\ metrics.customDomains[<<"1", "d">>] = 1
    /\ metrics.customDomains[<<"2", "d">>] = 0
    /\ metrics.customDomainsTotal = 2
    /\ Checked(1, 1) /\ ~checks[1][1].hasPagesJob
    /\ Checked(1, 2) /\ checks[1][2].hasPagesJob
====
